---- MODULE Spec2Model ----
\* Model of cohorts/2026/01-docker-terraform/docker/ingest_data.py:
\* main() dispatches on the suffix of file_path to ingest_parquet() or
\* ingest_csv(), which write the file to a PostgreSQL table in chunks of
\* chunk_size rows, one DataFrame.to_sql() call at a time.
\*
\* A row is identified by the file it comes from and its position in it, so a
\* run of consecutive rows is a segment [file, lo, hi) and the rows of a table
\* are a sequence of segments kept in insertion order (adjacent segments that
\* continue each other are merged, so equal row sequences are equal values).
\* A table's schema is its list of column names; the pd.to_datetime
\* conversions change the values of a column, not the rows or the columns, and
\* are not part of the state.
EXTENDS Integers, Sequences, FiniteSets, TLC

VARIABLES
    db,          \* the database: table name -> table
    pc,          \* position of the process inside main()
    params,      \* the argparse namespace of the current run
    engines,     \* number of create_engine() calls of the current run
    fs,          \* the data every source file holds: row count and header
    df,          \* ingest_parquet: the loaded frame; ingest_csv: df_sample
    it,          \* number of items the for loop's enumerate() has yielded
    cursor,      \* ingest_csv: rows the chunk iterator has consumed
    first_chunk, \* ingest_csv: the chunk iterator has returned no chunk yet
    i,           \* the loop variable i
    chunk,       \* the chunk in hand
    ops,         \* to_sql calls of the current run that completed
    out,         \* lines printed by the current run
    start,       \* the database when the current run began
    prev,        \* the run before the current one: how it ended, its params
    runs         \* number of invocations of main() so far

vars == <<db, pc, fs, params, engines, df, it, cursor, first_chunk, i, chunk,
          ops, out, start, prev, runs>>

-----------------------------------------------------------------------------
\* Bounds of the model.

MaxRuns == 2
MaxChunks == 2
OldRows == 7

\* chunk_size = 100000 in both ingest functions.
chunk_size == 100000

-----------------------------------------------------------------------------
\* Strings as sequences of characters, so that str.endswith is computed.

ExtParquet == <<".", "p", "a", "r", "q", "u", "e", "t">>
ExtCsv == <<".", "c", "s", "v">>
ExtGz == <<".", "g", "z">>
ExtJson == <<".", "j", "s", "o", "n">>

\* The file paths main() is called with.
PathParquet == <<"a">> \o ExtParquet
PathCsv == <<"a">> \o ExtCsv
PathCsvGz == <<"a">> \o ExtCsv \o ExtGz
PathJson == <<"a">> \o ExtJson
PathCsvBak == <<"a">> \o ExtCsv \o <<".", "b">>

FilePaths == {PathParquet, PathCsv, PathCsvGz, PathJson, PathCsvBak}

TableNames == {"t1", "t2"}

ColumnLists == { <<"id", "pickup_datetime", "fare">>, <<"id", "fare">> }

\* Row counts of the source files: around every multiple of chunk_size.
RowCounts ==
    { n \in { k * chunk_size + d :
                k \in 0..MaxChunks, d \in {0, 1, chunk_size \div 2} } :
        n <= MaxChunks * chunk_size + chunk_size \div 2 }

\* What the source files hold: nrows data rows under a header of columns.
Contents == [nrows : RowCounts, columns : ColumnLists]

\* The file found at a path.
FileAt(path, content) ==
    [path |-> path, nrows |-> content.nrows, columns |-> content.columns]

Min(a, b) == IF a <= b THEN a ELSE b

\* Mutant: the suffix is looked for anywhere in the string ('in').
EndsWith_contains(s, suffix) ==
    \E k \in 1..(Len(s) - Len(suffix) + 1) :
        SubSeq(s, k, k + Len(suffix) - 1) = suffix

\* str.endswith(suffix)
EndsWith(s, suffix) ==
    /\ Len(suffix) <= Len(s)
    /\ SubSeq(s, Len(s) - Len(suffix) + 1, Len(s)) = suffix

-----------------------------------------------------------------------------
\* Data frames: consecutive rows [lo, hi) of one file, with its columns.

NoFile == [path |-> <<>>, nrows |-> 0, columns |-> <<>>]
NoFrame == [file |-> NoFile, lo |-> 0, hi |-> 0]

\* pd.read_parquet(file_path): the whole file.
ReadParquet(f) == [file |-> f, lo |-> 0, hi |-> f.nrows]

\* len(df)
FrameLen(d) == d.hi - d.lo

\* Mutant: the slice includes its end (.loc instead of .iloc).
Iloc_inclusive(d, a, b) ==
    [file |-> d.file,
     lo |-> Min(d.lo + a, d.hi),
     hi |-> Min(d.lo + (IF b < a THEN a ELSE b) + 1, d.hi)]

\* df.iloc[a:b]
Iloc(d, a, b) ==
    [file |-> d.file,
     lo |-> Min(d.lo + a, d.hi),
     hi |-> Min(d.lo + (IF b < a THEN a ELSE b), d.hi)]

\* Mutant: head(0) is left out, the whole chunk goes with the replace.
DfHead_all(d, n) == d

\* df.head(n)
DfHead(d, n) == [d EXCEPT !.hi = Min(d.lo + n, d.hi)]

\* Mutant: the loop runs total_chunks times.
RangeLen_plus1(a, b, step) == ((b - a) \div step) + 1

\* len(range(a, b, step)) for step > 0
RangeLen(a, b, step) ==
    IF b <= a THEN 0 ELSE (b - a + step - 1) \div step

\* Mutant: the step is off by one.
RangeAt_skip(a, step, k) == a + k * (step + 1)

\* range(a, b, step)[k], k counted from 0
RangeAt(a, step, k) == a + k * step

-----------------------------------------------------------------------------
\* The database.

NoTable == [exists |-> FALSE, columns |-> <<>>, rows |-> <<>>]

OldFile == [path |-> <<"o">> \o ExtCsv, nrows |-> OldRows, columns |-> <<"x">>]

\* Tables left by earlier loads.
OldTables ==
    { NoTable,
      [exists |-> TRUE, columns |-> OldFile.columns,
       rows |-> <<[file |-> OldFile, lo |-> 0, hi |-> OldRows]>>] }

RECURSIVE RowCount(_)
RowCount(rows) ==
    IF rows = <<>> THEN 0
    ELSE (Head(rows).hi - Head(rows).lo) + RowCount(Tail(rows))

\* The rows of a table followed by the rows of a frame.
AppendRows(rows, d) ==
    IF d.hi = d.lo THEN rows
    ELSE IF /\ rows /= <<>>
            /\ rows[Len(rows)].file = d.file
            /\ rows[Len(rows)].hi = d.lo
         THEN [rows EXCEPT ![Len(rows)].hi = d.hi]
         ELSE Append(rows, [file |-> d.file, lo |-> d.lo, hi |-> d.hi])

\* DataFrame.to_sql(name, con, if_exists, index=False) raises: appending to a
\* table whose columns are not the frame's.
ToSqlRaises(t, d, if_exists) ==
    /\ if_exists = "append"
    /\ t.exists
    /\ t.columns /= d.file.columns

\* Mutant: if_exists='append' in the first call too, nothing is dropped.
ToSql_keep(t, d, if_exists) ==
    IF ~t.exists
    THEN [exists |-> TRUE, columns |-> d.file.columns,
          rows |-> AppendRows(<<>>, d)]
    ELSE [t EXCEPT !.rows = AppendRows(t.rows, d)]

\* DataFrame.to_sql(name, con, if_exists, index=False), one transaction:
\* 'replace' drops the table and creates it from the frame, 'append' creates
\* it when it is missing; then the frame's rows are inserted.
ToSql(t, d, if_exists) ==
    IF if_exists = "replace" \/ ~t.exists
    THEN [exists |-> TRUE, columns |-> d.file.columns,
          rows |-> AppendRows(<<>>, d)]
    ELSE [t EXCEPT !.rows = AppendRows(t.rows, d)]

\* A completed to_sql call, as the database saw it.
Op(if_exists, d) ==
    [if_exists |-> if_exists, batch |-> i, rows |-> FrameLen(d)]

Line(text, args) == [text |-> text, args |-> args]

-----------------------------------------------------------------------------
\* The process.

Resting == {"start", "done", "unsupported", "failed_read", "failed_write"}

NoParams == [file_path |-> <<>>, table_name |-> ""]

TypeOK ==
    /\ db \in [TableNames -> [exists : BOOLEAN, columns : Seq(STRING),
                              rows : Seq([file : [path : Seq(STRING),
                                                  nrows : Nat,
                                                  columns : Seq(STRING)],
                                          lo : Nat, hi : Nat])]]
    /\ pc \in Resting \cup {"ingest_parquet", "pq_for", "pq_replace",
                            "pq_append", "ingest_csv", "csv_for",
                            "csv_replace", "csv_append"}
    /\ fs \in Contents
    /\ engines \in Nat
    /\ it \in Nat /\ cursor \in Nat /\ i \in Nat
    /\ first_chunk \in BOOLEAN
    /\ runs \in 0..MaxRuns

Init ==
    /\ db \in [TableNames -> OldTables]
    /\ fs \in Contents
    /\ pc = "start"
    /\ params = NoParams
    /\ engines = 0
    /\ df = NoFrame
    /\ it = 0
    /\ cursor = 0
    /\ first_chunk = TRUE
    /\ i = 0
    /\ chunk = NoFrame
    /\ ops = <<>>
    /\ out = <<>>
    /\ start = db
    /\ prev = [status |-> "none", params |-> NoParams]
    /\ runs = 0

\* The file at params.file_path.
File == FileAt(params.file_path, fs)

\* The target table.
Target == db[params.table_name]

\* main(params): a new invocation, dispatched on the suffix of file_path.
main(file_path, table_name) ==
    /\ pc \in Resting
    /\ runs < MaxRuns
    /\ runs' = runs + 1
    /\ params' = [file_path |-> file_path, table_name |-> table_name]
    /\ prev' = [status |-> pc, params |-> params]
    /\ start' = db
    /\ engines' = 0
    /\ df' = NoFrame
    /\ it' = 0
    /\ cursor' = 0
    /\ first_chunk' = TRUE
    /\ i' = 0
    /\ chunk' = NoFrame
    /\ ops' = <<>>
    /\ IF EndsWith(file_path, ExtParquet)
       THEN /\ out' = <<Line("Detected parquet file", <<>>)>>
            /\ pc' = "ingest_parquet"
       ELSE IF \/ EndsWith(file_path, ExtCsv)
               \/ EndsWith(file_path, ExtCsv \o ExtGz)
            THEN /\ out' = <<Line("Detected CSV file", <<>>)>>
                 /\ pc' = "ingest_csv"
            ELSE /\ out' = <<Line("Error: Unsupported file format", <<>>)>>
                 /\ pc' = "unsupported"
    /\ UNCHANGED <<db, fs>>

\* Mutant: the rows of the chunk in hand are in the table when the exception
\* leaves main().
Raise_partial(kind) ==
    /\ pc' = kind
    /\ db' = [db EXCEPT ![params.table_name] =
                  [exists |-> TRUE, columns |-> chunk.file.columns,
                   rows |-> AppendRows(db[params.table_name].rows, chunk)]]
    /\ UNCHANGED <<fs, params, df, it, cursor, first_chunk, i, chunk,
                   ops, out, start, prev, runs>>

\* A statement of the current run raises: the exception leaves main().
Raise(kind) ==
    /\ pc' = kind
    /\ UNCHANGED <<db, fs, params, df, it, cursor, first_chunk, i, chunk,
                   ops, out, start, prev, runs>>

\* Mutant: the second chunk replaces the table as well.
is_first_le1(idx) == idx <= 1

\* if i == 0: the first chunk creates the table.
is_first(idx) == idx = 0

-----------------------------------------------------------------------------
\* ingest_parquet(params)

\* total_chunks = (len(df) // chunk_size) + 1
total_chunks(d) == (FrameLen(d) \div chunk_size) + 1

\* create_engine, pd.read_parquet and the prints before the loop.
ingest_parquet_read ==
    /\ pc = "ingest_parquet"
    /\ engines' = engines + 1
    /\ \/ /\ df' = ReadParquet(File)
          /\ out' = out \o <<Line("Reading parquet file", <<>>),
                             Line("Loaded rows", <<FrameLen(df')>>),
                             Line("Inserting data into table", <<>>)>>
          /\ pc' = "pq_for"
          /\ UNCHANGED <<db, fs, params, it, cursor, first_chunk, i, chunk,
                         ops, start, prev, runs>>
       \/ /\ out' = out \o <<Line("Reading parquet file", <<>>)>>
          /\ pc' = "failed_read"
          /\ UNCHANGED <<db, fs, params, df, it, cursor, first_chunk, i,
                         chunk, ops, start, prev, runs>>

\* for i, chunk_start in enumerate(range(0, len(df), chunk_size)): the next
\* chunk is sliced, or the loop ends and success is printed.
ingest_parquet_for ==
    /\ pc = "pq_for"
    /\ IF it < RangeLen(0, FrameLen(df), chunk_size)
       THEN LET chunk_start == RangeAt(0, chunk_size, it)
                chunk_end == Min(chunk_start + chunk_size, FrameLen(df))
            IN /\ i' = it
               /\ it' = it + 1
               /\ chunk' = Iloc(df, chunk_start, chunk_end)
               /\ pc' = IF is_first(i') THEN "pq_replace" ELSE "pq_append"
               /\ out' = out
       ELSE /\ out' = Append(out, Line("Data ingestion completed successfully!", <<>>))
            /\ pc' = "done"
            /\ UNCHANGED <<i, it, chunk>>
    /\ UNCHANGED <<db, fs, params, engines, df, cursor, first_chunk, ops,
                   start, prev, runs>>

\* chunk.head(0).to_sql(name=table_name, con=engine, if_exists='replace')
ingest_parquet_replace ==
    /\ pc = "pq_replace"
    /\ UNCHANGED engines
    /\ \/ /\ ~ToSqlRaises(Target, DfHead(chunk, 0), "replace")
          /\ db' = [db EXCEPT ![params.table_name] =
                        ToSql(Target, DfHead(chunk, 0), "replace")]
          /\ ops' = Append(ops, Op("replace", DfHead(chunk, 0)))
          /\ pc' = "pq_append"
          /\ UNCHANGED <<fs, params, df, it, cursor, first_chunk, i, chunk,
                         out, start, prev, runs>>
       \/ Raise("failed_write")

\* chunk.to_sql(name=table_name, con=engine, if_exists='append') of either
\* branch, and the progress line.
ingest_parquet_append ==
    /\ pc = "pq_append"
    /\ UNCHANGED engines
    /\ \/ /\ ~ToSqlRaises(Target, chunk, "append")
          /\ db' = [db EXCEPT ![params.table_name] =
                        ToSql(Target, chunk, "append")]
          /\ ops' = Append(ops, Op("append", chunk))
          /\ out' = Append(out, Line("Inserted chunk",
                                     <<i + 1, total_chunks(df),
                                       Min(RangeAt(0, chunk_size, i)
                                             + chunk_size, FrameLen(df)),
                                       FrameLen(df)>>))
          /\ pc' = "pq_for"
          /\ UNCHANGED <<fs, params, df, it, cursor, first_chunk, i, chunk,
                         start, prev, runs>>
       \/ Raise("failed_write")

-----------------------------------------------------------------------------
\* ingest_csv(params)

\* pd.read_csv(file_path, nrows=100) reads at most this many rows.
sample_rows == 100

\* pd.read_csv(file_path): the data rows under the header.
ReadCsv(f) == [file |-> f, lo |-> 0, hi |-> f.nrows]

\* next(chunk_iterator) raises StopIteration: the rows are exhausted, except
\* that the first call on a file with a header and no rows returns an empty
\* chunk with the header's columns.
StopIteration(f, pos, first) == pos >= f.nrows /\ ~first

\* Mutant: the iterator yields half-size chunks.
NextChunk_half(f, pos) == Iloc(ReadCsv(f), pos, pos + chunk_size \div 2)

\* The chunk next(chunk_iterator) returns: the next chunk_size rows, or fewer
\* at the end of the file.
NextChunk(f, pos) == Iloc(ReadCsv(f), pos, pos + chunk_size)

\* create_engine, the sample read, the prints and the chunk iterator.
ingest_csv_sample ==
    /\ pc = "ingest_csv"
    /\ engines' = engines + 1
    /\ \/ /\ df' = DfHead(ReadCsv(File), sample_rows)
          /\ out' = out \o <<Line("Reading CSV file", <<>>),
                             Line("Columns", <<>>),
                             Line("Detected datetime columns", <<>>),
                             Line("Inserting data into table", <<>>)>>
          /\ cursor' = 0
          /\ first_chunk' = TRUE
          /\ pc' = "csv_for"
          /\ UNCHANGED <<db, fs, params, it, i, chunk, ops, start, prev,
                         runs>>
       \/ /\ out' = out \o <<Line("Reading CSV file", <<>>)>>
          /\ pc' = "failed_read"
          /\ UNCHANGED <<db, fs, params, df, it, cursor, first_chunk, i,
                         chunk, ops, start, prev, runs>>

\* for i, chunk in enumerate(chunk_iterator): the next chunk is parsed, or
\* the loop ends and success is printed, or the parser raises.
ingest_csv_for ==
    /\ pc = "csv_for"
    /\ UNCHANGED engines
    /\ \/ /\ IF ~StopIteration(File, cursor, first_chunk)
             THEN /\ chunk' = NextChunk(File, cursor)
                  /\ cursor' = chunk'.hi
                  /\ first_chunk' = FALSE
                  /\ i' = it
                  /\ it' = it + 1
                  /\ pc' = IF is_first(i') THEN "csv_replace" ELSE "csv_append"
                  /\ out' = out
             ELSE /\ out' = Append(out, Line("Data ingestion completed successfully!", <<>>))
                  /\ pc' = "done"
                  /\ UNCHANGED <<i, it, chunk, cursor, first_chunk>>
          /\ UNCHANGED <<db, fs, params, df, ops, start, prev, runs>>
       \/ /\ ~StopIteration(File, cursor, first_chunk)
          /\ Raise("failed_read")

\* chunk.head(0).to_sql(name=table_name, con=engine, if_exists='replace')
ingest_csv_replace ==
    /\ pc = "csv_replace"
    /\ UNCHANGED engines
    /\ \/ /\ ~ToSqlRaises(Target, DfHead(chunk, 0), "replace")
          /\ db' = [db EXCEPT ![params.table_name] =
                        ToSql(Target, DfHead(chunk, 0), "replace")]
          /\ ops' = Append(ops, Op("replace", DfHead(chunk, 0)))
          /\ pc' = "csv_append"
          /\ UNCHANGED <<fs, params, df, it, cursor, first_chunk, i, chunk,
                         out, start, prev, runs>>
       \/ Raise("failed_write")

\* chunk.to_sql(name=table_name, con=engine, if_exists='append') of either
\* branch, and the progress line.
ingest_csv_append ==
    /\ pc = "csv_append"
    /\ UNCHANGED engines
    /\ \/ /\ ~ToSqlRaises(Target, chunk, "append")
          /\ db' = [db EXCEPT ![params.table_name] =
                        ToSql(Target, chunk, "append")]
          /\ ops' = Append(ops, Op("append", chunk))
          /\ out' = Append(out, Line("Inserted chunk",
                                     <<i + 1, FrameLen(chunk)>>))
          /\ pc' = "csv_for"
          /\ UNCHANGED <<fs, params, df, it, cursor, first_chunk, i, chunk,
                         start, prev, runs>>
       \/ Raise("failed_write")

Next ==
    \/ \E file_path \in FilePaths, table_name \in TableNames :
          main(file_path, table_name)
    \/ ingest_parquet_read
    \/ ingest_parquet_for
    \/ ingest_parquet_replace
    \/ ingest_parquet_append
    \/ ingest_csv_sample
    \/ ingest_csv_for
    \/ ingest_csv_replace
    \/ ingest_csv_append

Spec == Init /\ [][Next]_vars

-----------------------------------------------------------------------------
\* Vocabulary of the properties.

IsParquet == params.file_path = PathParquet
IsCsv == params.file_path \in {PathCsv, PathCsvGz}

\* The append calls of the current run that completed, in order.
Appends == SelectSeq(ops, LAMBDA o : o.if_exists = "append")

\* The create-or-replace calls of the current run that completed.
Replaces == SelectSeq(ops, LAMBDA o : o.if_exists = "replace")

\* The first n rows of file f, in file order.
Prefix(f, n) == IF n = 0 THEN <<>> ELSE <<[file |-> f, lo |-> 0, hi |-> n]>>

\* ceil(n / chunk_size)
CeilChunks(n) == (n + chunk_size - 1) \div chunk_size

\* The table made of the first k batches of the current file.
AfterBatches(k) ==
    [exists |-> TRUE, columns |-> fs.columns,
     rows |-> Prefix(File, Min(k * chunk_size, fs.nrows))]

\* No table but the target differs from what it was when the run began.
OthersUntouched ==
    \A t \in TableNames \ {params.table_name} : db[t] = start[t]

-----------------------------------------------------------------------------
\* C1: after a run over a supported file ends without a failure, the target
\* table contains exactly as many rows as the source file, whatever the
\* table held before.
C1_RowCountEqualsSource ==
    pc = "done" => RowCount(Target.rows) = fs.nrows

\* C2: a source whose row count is a positive multiple of chunk_size meets no
\* failure of its own making (no write is refused, no batch is empty), every
\* append carries exactly chunk_size rows, and at the end the table holds each
\* source row exactly once: N rows, N / chunk_size appends.
C2_ExactMultiple ==
    (/\ IsParquet \/ IsCsv
     /\ fs.nrows > 0
     /\ fs.nrows % chunk_size = 0)
    => /\ \A j \in 1..Len(Appends) : Appends[j].rows = chunk_size
       /\ pc \in {"pq_replace", "csv_replace"}
            => ~ToSqlRaises(Target, DfHead(chunk, 0), "replace")
       /\ pc \in {"pq_append", "csv_append"}
            => /\ ~ToSqlRaises(Target, chunk, "append")
               /\ FrameLen(chunk) = chunk_size
       /\ pc = "done"
            => /\ Target.exists
               /\ Target.rows = Prefix(File, fs.nrows)
               /\ RowCount(Target.rows) = fs.nrows
               /\ Len(Appends) = fs.nrows \div chunk_size

C2_Witness ==
    /\ pc = "done"
    /\ fs.nrows = 2 * chunk_size
    /\ Len(Appends) = 2
    /\ start[params.table_name].exists

\* C3: a path that ends with none of .parquet, .csv, .csv.gz gets the
\* unsupported-format message and nothing else: no engine is created, no
\* to_sql call is made and the database is as it was.
C3_Unsupported ==
    params.file_path \in {PathJson, PathCsvBak}
    => /\ pc = "unsupported"
       /\ out = <<Line("Error: Unsupported file format", <<>>)>>
       /\ engines = 0
       /\ ops = <<>>
       /\ db = start

C3_Witness ==
    /\ pc = "unsupported"
    /\ params.file_path = PathJson
    /\ Target.exists
    /\ RowCount(Target.rows) > 0

\* C4: a successful run that directly follows a successful run with the same
\* file and table name leaves the target table exactly as the first run left
\* it: same rows (so same row count) and same columns.
C4_SecondRunSameState ==
    (/\ pc = "done"
     /\ prev.status = "done"
     /\ prev.params = params)
    => /\ Target = start[params.table_name]
       /\ RowCount(Target.rows) = RowCount(start[params.table_name].rows)
       /\ Target.columns = start[params.table_name].columns

C4_Witness ==
    /\ pc = "done"
    /\ prev.status = "done"
    /\ prev.params = params
    /\ IsCsv
    /\ fs.nrows = 2 * chunk_size + chunk_size \div 2
    /\ Len(Appends) = 3

\* C5 as stated: when a write fails the target table is exactly what the
\* batches completed before it produced: untouched when none completed.
C5_FailedWriteLeavesCompletedBatches ==
    pc = "failed_write"
    => Target = IF Len(Appends) = 0 THEN start[params.table_name]
                ELSE AfterBatches(Len(Appends))

\* The table after a failed write: as before the run when the
\* create-or-replace failed, else recreated and holding the completed batches.
FailedWriteState ==
    /\ OthersUntouched
    /\ IF ops = <<>> THEN db = start
       ELSE Target = AfterBatches(Len(Appends))

\* C5 amended: when a write fails the run stops there (the next step, if any,
\* is a new invocation and changes no table); the table is as before the run
\* if the failed call is the create-or-replace, and otherwise has the source's
\* columns and exactly the rows of the batches completed before the failed
\* one, which is an empty table when the append of batch 0 fails.
C5_FailedWrite ==
    [][/\ pc' = "failed_write" => FailedWriteState'
       /\ pc = "failed_write" => (db' = db /\ runs' = runs + 1)]_vars

C5_Witness ==
    /\ pc = "failed_write"
    /\ Len(Appends) = 0
    /\ Len(ops) = 1
    /\ RowCount(start[params.table_name].rows) > 0
    /\ Target.rows = <<>>

\* C6 as stated: a CSV of N rows is written with exactly ceil(N / chunk_size)
\* writes, and 250,000 rows with writes of 100,000, 100,000 and 50,000 rows.
C6_CsvWriteCount ==
    (IsCsv /\ pc = "done")
    => /\ Len(Appends) = CeilChunks(fs.nrows)
       /\ RowCount(Target.rows) = fs.nrows

\* C6 amended: a CSV of N >= 1 rows is written with exactly
\* ceil(N / chunk_size) appends and a CSV of a header and no rows with one
\* append of zero rows; 250,000 rows are written as 100,000, 100,000 and
\* 50,000 rows in that order; the table ends with N rows.
C6_CsvWrites ==
    (IsCsv /\ pc = "done")
    => /\ Len(Appends) = IF fs.nrows = 0 THEN 1 ELSE CeilChunks(fs.nrows)
       /\ fs.nrows = 0 => Appends[1].rows = 0
       /\ fs.nrows = 250000
            => /\ Len(Appends) = 3
               /\ Appends[1].rows = 100000
               /\ Appends[2].rows = 100000
               /\ Appends[3].rows = 50000
       /\ RowCount(Target.rows) = fs.nrows

C6_Witness ==
    /\ IsCsv
    /\ pc = "done"
    /\ fs.nrows = 250000
    /\ Len(Appends) = 3

\* C7: in a run the create-or-replace is the first to_sql call and the only
\* replace, it carries zero rows and belongs to batch 0; every other call is
\* an append, batches after the first only append, a run that ends after at
\* least one batch has issued it, and the table holds everything the run's
\* appends carried.
C7_ReplaceOnceFirst ==
    /\ \A j \in 1..Len(ops) :
          /\ ops[j].if_exists = "replace" <=> j = 1
          /\ ops[j].if_exists = "replace" => ops[j].rows = 0 /\ ops[j].batch = 0
          /\ ops[j].batch > 0 => ops[j].if_exists = "append"
          /\ j > 2 => ops[j].batch = ops[j - 1].batch + 1
    /\ (pc = "done" /\ it >= 1) => Len(Replaces) = 1
    /\ ops /= <<>> =>
          /\ Target.exists
          /\ RowCount(Target.rows) = RowCount([j \in 1..Len(Appends) |->
                                        [lo |-> 0, hi |-> Appends[j].rows]])

C7_Witness ==
    /\ pc = "done"
    /\ Len(ops) = 4
    /\ ops[1].if_exists = "replace"
    /\ ops[4].batch = 2

\* C8: once the table has been created by the run, its rows are the first
\* min(k * chunk_size, N) rows of the source in source order, k being the
\* number of batches written; the batch being written is batch k and begins
\* at the row after the written ones, so no batch is read ahead of a write.
C8_PrefixInOrder ==
    /\ ops /= <<>> =>
          Target.rows = Prefix(File, Min(Len(Appends) * chunk_size, fs.nrows))
    /\ pc \in {"pq_replace", "pq_append", "csv_replace", "csv_append"}
          => /\ i = Len(Appends)
             /\ it = i + 1
             /\ chunk.file = File
             /\ chunk.lo = Min(i * chunk_size, fs.nrows)
             /\ chunk.hi = Min((i + 1) * chunk_size, fs.nrows)
    /\ pc \in {"pq_for", "csv_for"} => it = Len(Appends)

C8_Witness ==
    /\ pc = "csv_append"
    /\ i = 2
    /\ fs.nrows = 2 * chunk_size + 1
    /\ RowCount(Target.rows) = 2 * chunk_size

\* C9 as stated: when the row count is a positive multiple of chunk_size the
\* Parquet loop runs N / chunk_size + 1 times.
C9_ExtraIteration ==
    (/\ IsParquet
     /\ pc = "done"
     /\ fs.nrows > 0
     /\ fs.nrows % chunk_size = 0)
    => it = fs.nrows \div chunk_size + 1

\* C9 amended: the Parquet loop runs exactly ceil(N / chunk_size) times, its
\* batches are consecutive, of exactly chunk_size rows except a smaller
\* non-empty last one, and no batch is empty; when N is a positive multiple of
\* chunk_size that is N / chunk_size iterations, one fewer than the
\* total_chunks the progress lines print.
C9_ParquetBatches ==
    IsParquet
    => /\ pc \in {"pq_replace", "pq_append"}
            => /\ chunk.lo = i * chunk_size
               /\ FrameLen(chunk) >= 1
               /\ FrameLen(chunk) <= chunk_size
               /\ FrameLen(chunk) < chunk_size => chunk.hi = fs.nrows
       /\ \A j \in 1..Len(Appends) :
             /\ Appends[j].batch = j - 1
             /\ Appends[j].rows =
                   Min(chunk_size, fs.nrows - (j - 1) * chunk_size)
       /\ pc = "done"
            => /\ it = CeilChunks(fs.nrows)
               /\ Len(Appends) = it
               /\ (fs.nrows > 0 /\ fs.nrows % chunk_size = 0)
                     => /\ it = fs.nrows \div chunk_size
                        /\ out[Len(out) - 1].args[2] = it + 1

C9_Witness ==
    /\ IsParquet
    /\ pc = "done"
    /\ fs.nrows = chunk_size
    /\ it = 1
    /\ out[Len(out) - 1].args = <<1, 2, chunk_size, chunk_size>>

\* C10: a Parquet file of zero rows makes the loop body run zero times: no
\* to_sql call is made, the run prints success, and the database is as it was
\* before the run.
C10_EmptyParquet ==
    (IsParquet /\ fs.nrows = 0)
    => /\ pc \in {"ingest_parquet", "pq_for", "done", "failed_read"}
       /\ it = 0
       /\ ops = <<>>
       /\ db = start
       /\ pc = "done" =>
             out[Len(out)] = Line("Data ingestion completed successfully!", <<>>)

C10_Witness ==
    /\ IsParquet
    /\ fs.nrows = 0
    /\ pc = "done"
    /\ Target.exists
    /\ RowCount(Target.rows) > 0
====
